---------------------------- MODULE Spec2Model ----------------------------
(***************************************************************************)
(* Transfer-progress tracking of Uplink                                    *)
(* (common/src/state/data_transfer.rs): the lock-guarded TransferState     *)
(* cell, the TransferTracker with its two entry collections, the aggregate *)
(* progress and the size formatter.  Floating-point computations of the    *)
(* source (f64 division, multiplication, casts and formatting) are         *)
(* modelled bit-exactly on 53-bit significands held as bit sequences.      *)
(***************************************************************************)
EXTENDS Integers, Sequences, FiniteSets, TLC

(***************************************************************************)
(* Bounds of the model.                                                    *)
(***************************************************************************)
MaxOps     == 3      \* TransferTracker calls in one run
MaxCalls   == 4      \* calls in one run, those on TransferState handles included
MaxEntries == 2      \* entries kept in one collection of the tracker
NumTasks   == 2      \* tasks holding TransferState handles (one cell each)

(***************************************************************************)
(* IEEE-754 binary64 arithmetic, restricted to the non-negative values the *)
(* source computes with.  A finite non-zero value is m * 2^(e-52) with m a *)
(* 53-bit significand, most significant bit first and equal to 1.          *)
(***************************************************************************)
F64_MANTISSA_DIGITS == 53

F64Zero == [k |-> "zero"]
F64Inf  == [k |-> "inf"]
F64NaN  == [k |-> "nan"]

RECURSIVE NatBits(_)
NatBits(n) == IF n = 0 THEN <<>> ELSE Append(NatBits(n \div 2), n % 2)

RECURSIVE BitsNat(_)
BitsNat(b) == IF b = <<>> THEN 0
              ELSE 2 * BitsNat(SubSeq(b, 1, Len(b) - 1)) + b[Len(b)]

Zeros(n) == [i \in 1..n |-> 0]

PadLeft(b, n) == Zeros(n - Len(b)) \o b

AnyOne(b) == \E i \in 1..Len(b) : b[i] = 1

StripZeros(b) ==
    IF ~AnyOne(b) THEN <<>>
    ELSE LET j == CHOOSE i \in 1..Len(b) :
                      b[i] = 1 /\ \A h \in 1..(i - 1) : b[h] = 0
         IN  SubSeq(b, j, Len(b))

\* b + 1 on a bit sequence of fixed length; an all-ones input wraps to zeros
IncBits(b) ==
    LET zs == {i \in 1..Len(b) : b[i] = 0}
    IN  IF zs = {} THEN Zeros(Len(b))
        ELSE LET j == CHOOSE i \in zs : \A h \in zs : h <= i
             IN  [i \in 1..Len(b) |-> IF i < j THEN b[i]
                                      ELSE IF i = j THEN 1 ELSE 0]

\* the bit-sequence arithmetic below works on groups of ChunkBits bits, so
\* multipliers and divisors stay below 2^(31 - ChunkBits)
ChunkBits == 10
ChunkBase == 2 ^ ChunkBits

\* b * k + carry, exactly (b without leading zeros)
RECURSIVE MulBits(_, _, _)
MulBits(b, k, carry) ==
    IF Len(b) <= ChunkBits THEN NatBits(BitsNat(b) * k + carry)
    ELSE LET v == BitsNat(SubSeq(b, Len(b) - ChunkBits + 1, Len(b))) * k + carry
         IN  MulBits(SubSeq(b, 1, Len(b) - ChunkBits), k, v \div ChunkBase)
                 \o PadLeft(NatBits(v % ChunkBase), ChunkBits)

\* long division of b by d from bit i onwards, given the quotient q and the
\* remainder r of the bits before i: quotient bits (as long as b), remainder
RECURSIVE DivBits(_, _, _, _, _)
DivBits(b, d, i, q, r) ==
    IF i > Len(b) THEN [q |-> q, r |-> r]
    ELSE LET n == IF Len(b) - i + 1 < ChunkBits THEN Len(b) - i + 1
                  ELSE ChunkBits
             v == r * (2 ^ n) + BitsNat(SubSeq(b, i, i + n - 1))
         IN  DivBits(b, d, i + n, q \o PadLeft(NatBits(v \div d), n), v % d)

\* round-to-nearest, ties-to-even, of the exact value b * 2^x (+ sticky)
\* where b starts with a 1 and lsbExp is the weight of its last bit
F64Round(b, lsbExp, sticky) ==
    LET n == Len(b)
    IN  IF n <= F64_MANTISSA_DIGITS
        THEN [k |-> "num", m |-> b \o Zeros(F64_MANTISSA_DIGITS - n),
              e |-> lsbExp + n - 1]
        ELSE LET head == SubSeq(b, 1, F64_MANTISSA_DIGITS)
                 half == b[F64_MANTISSA_DIGITS + 1]
                 rest == sticky \/ AnyOne(SubSeq(b, F64_MANTISSA_DIGITS + 2, n))
                 up   == half = 1 /\ (rest \/ head[F64_MANTISSA_DIGITS] = 1)
                 e0   == lsbExp + n - 1
             IN  IF ~up THEN [k |-> "num", m |-> head, e |-> e0]
                 ELSE IF AnyOne(IncBits(head))
                      THEN [k |-> "num", m |-> IncBits(head), e |-> e0]
                      ELSE [k |-> "num",
                            m |-> <<1>> \o Zeros(F64_MANTISSA_DIGITS - 1),
                            e |-> e0 + 1]

\* `n as f64` for an unsigned integer below 2^53 (exact)
F64FromNat(n) ==
    IF n = 0 THEN F64Zero ELSE F64Round(NatBits(n), 0, FALSE)

\* `n as f64` for a usize given by its bits, most significant first: values
\* of more than 53 bits round to the nearest f64
F64FromBits(b) ==
    IF ~AnyOne(b) THEN F64Zero ELSE F64Round(StripZeros(b), 0, FALSE)

\* extra quotient bits produced by a division (more than a divisor has)
DivGuardBits == 32

\* `x / (d as f64)`
F64DivNat(x, d) ==
    CASE x.k = "nan"  -> F64NaN
      [] x.k = "inf"  -> F64Inf
      [] x.k = "zero" -> IF d = 0 THEN F64NaN ELSE F64Zero
      [] OTHER ->
           IF d = 0 THEN F64Inf
           ELSE LET p == DivBits(x.m \o Zeros(DivGuardBits), d, 1, <<>>, 0)
                IN  F64Round(StripZeros(p.q),
                             x.e - (F64_MANTISSA_DIGITS - 1) - DivGuardBits,
                             p.r # 0)

\* `x * (c as f64)` for a positive integer constant c
F64MulNat(x, c) ==
    CASE x.k = "nan"  -> F64NaN
      [] x.k = "inf"  -> F64Inf
      [] x.k = "zero" -> F64Zero
      [] OTHER -> F64Round(MulBits(x.m, c, 0),
                           x.e - (F64_MANTISSA_DIGITS - 1), FALSE)

\* `x as u8` / `x as i8` for x >= 0: truncation towards zero, saturating at
\* the type's maximum, NaN to 0
F64ToInt(x, max) ==
    CASE x.k = "nan"  -> 0
      [] x.k = "inf"  -> max
      [] x.k = "zero" -> 0
      [] OTHER ->
           IF x.e < 0 THEN 0
           ELSE IF x.e >= 30 THEN max
           ELSE LET v == BitsNat(SubSeq(x.m, 1, x.e + 1))
                IN  IF v > max THEN max ELSE v

U8_MAX == 255
I8_MAX == 127

\* f64::fract() == 0.0
F64FractIsZero(x) ==
    CASE x.k = "zero" -> TRUE
      [] x.k = "num"  ->
           /\ x.e >= 0
           /\ ~AnyOne(SubSeq(x.m, x.e + 2, F64_MANTISSA_DIGITS))
      [] OTHER -> FALSE


\* f64 `x >= n` for a natural number n
F64GeNat(x, n) ==
    CASE x.k = "nan"  -> FALSE
      [] x.k = "inf"  -> TRUE
      [] x.k = "zero" -> n = 0
      [] OTHER ->
           IF x.e < 0 THEN n = 0
           ELSE IF x.e >= 30 THEN TRUE
           ELSE BitsNat(SubSeq(x.m, 1, x.e + 1)) >= n

TwoDigits(n) == IF n < 10 THEN "0" \o ToString(n) ELSE ToString(n)

\* format!("{:.*}", places, x): the exact value of x rounded to `places`
\* decimals (ties to even); places is 0 only for integral x, else 2
F64Format(x, places) ==
    IF x.k = "zero" THEN (IF places = 0 THEN "0" ELSE "0.00")
    ELSE IF places = 0 THEN ToString(BitsNat(SubSeq(x.m, 1, x.e + 1)))
    ELSE LET p    == MulBits(x.m, 100, 0)
             n    == Len(p)
             s    == (F64_MANTISSA_DIGITS - 1) - x.e
             int  == IF s >= n THEN 0 ELSE BitsNat(SubSeq(p, 1, n - s))
             half == IF s > n THEN 0 ELSE p[n - s + 1]
             rest == AnyOne(SubSeq(p, n - s + 2, n))
             h    == IF half = 1 /\ (rest \/ int % 2 = 1) THEN int + 1 ELSE int
         IN  ToString(h \div 100) \o "." \o TwoDigits(h % 100)

(***************************************************************************)
(* TransferStates and TransferProgress.                                    *)
(***************************************************************************)
TransferStates == {"Normal", "Cancel", "Pause"}

\* swap, with a pause request leaving a paused cell paused
swap_no_resume(self, cancel) ==
    CASE self = "Normal" -> IF cancel THEN "Cancel" ELSE "Pause"
      [] self = "Cancel" -> "Cancel"
      [] self = "Pause"  -> IF cancel THEN "Cancel" ELSE "Pause"

\* swap, with a pause request resuming a cancelled cell
swap_uncancel(self, cancel) ==
    CASE self = "Normal" -> IF cancel THEN "Cancel" ELSE "Pause"
      [] self = "Cancel" -> IF cancel THEN "Cancel" ELSE "Normal"
      [] self = "Pause"  -> IF cancel THEN "Cancel" ELSE "Normal"

\* TransferStates::swap
swap(self, cancel) ==
    CASE self = "Normal" -> IF cancel THEN "Cancel" ELSE "Pause"
      [] self = "Cancel" -> "Cancel"
      [] self = "Pause"  -> IF cancel THEN "Cancel" ELSE "Normal"

Starting      == [tag |-> "Starting"]
Finishing     == [tag |-> "Finishing"]
Progress(p)   == [tag |-> "Progress", p |-> p]
Paused(p)     == [tag |-> "Paused", p |-> p]
Cancelling(p) == [tag |-> "Cancelling", p |-> p]
Error(p)      == [tag |-> "Error", p |-> p]

\* TransferProgress::get_progress
get_progress(self) ==
    IF self.tag \in {"Progress", "Paused", "Cancelling", "Error"}
    THEN self.p ELSE 0

(***************************************************************************)
(* Texts.  The localisation lookups return the key with its arguments.     *)
(***************************************************************************)
get_local_text(key) == [key |-> key, args |-> <<>>]
get_local_text_with_args(key, args) == [key |-> key, args |-> args]

\* humansize::format_size(n, DECIMAL), kept symbolic
format_size(n) == [fn |-> "format_size", bytes |-> n]

\* a ladder that ends at PB
SCALE_DECIMAL_short == <<"B", "kB", "MB", "GB", "TB", "PB">>

SCALE_DECIMAL == <<"B", "kB", "MB", "GB", "TB", "PB", "EB", "ZB", "YB">>

\* the panic of `SCALE_DECIMAL[scale_idx]` with scale_idx past the end
IndexPanic == <<"index out of bounds">>

\* the loop `while total.abs() >= divider { total /= divider; scale_idx += 1 }`
RECURSIVE ScaleTotal(_, _)
ScaleTotal(total, scale_idx) ==
    IF F64GeNat(total, 1000)
    THEN ScaleTotal(F64DivNat(total, 1000), scale_idx + 1)
    ELSE [total |-> total, scale_idx |-> scale_idx]

\* the loop `while scale_idx > 0 { size /= divider; scale_idx -= 1 }`
RECURSIVE ScaleSize(_, _)
ScaleSize(size, scale_idx) ==
    IF scale_idx > 0 THEN ScaleSize(F64DivNat(size, 1000), scale_idx - 1)
    ELSE size

\* get_size_display, scaling size by a scale index of its own
get_size_display_own_scale(size, total) ==
    LET t          == ScaleTotal(F64FromBits(total), 0)
        s          == ScaleTotal(F64FromBits(size), 0)
        scale      == SCALE_DECIMAL[t.scale_idx + 1]
        total_size == F64Format(t.total,
                                IF F64FractIsZero(t.total) THEN 0 ELSE 2)
                          \o " " \o scale
    IN  <<F64Format(s.total, IF F64FractIsZero(s.total) THEN 0 ELSE 2),
          total_size>>

\* TransferTracker::get_size_display on usize arguments given by their bits
get_size_display_bits(size, total) ==
    LET t          == ScaleTotal(F64FromBits(total), 0)
        scale      == SCALE_DECIMAL[t.scale_idx + 1]
        total_size == F64Format(t.total,
                                IF F64FractIsZero(t.total) THEN 0 ELSE 2)
                          \o " " \o scale
        sz         == ScaleSize(F64FromBits(size), t.scale_idx)
    IN  IF t.scale_idx + 1 \notin DOMAIN SCALE_DECIMAL THEN IndexPanic
        ELSE <<F64Format(sz, IF F64FractIsZero(sz) THEN 0 ELSE 2), total_size>>

\* TransferTracker::get_size_display
get_size_display(size, total) ==
    get_size_display_bits(NatBits(size), NatBits(total))


(***************************************************************************)
(* Inputs.                                                                 *)
(***************************************************************************)
Tasks == 1..NumTasks
Cells == 1..NumTasks           \* the cell made by task t's TransferState::new()
NoTask == 0

TrackerType == {"FileUpload", "FileDownload"}
NumIds == 2
Uuids == 1..NumIds
Files == {"a.txt"}
Currents == {0, 29, 58, 300}   \* FileProgression::CurrentProgress.current
Totals == {0, 100}             \* the total / last_size of an event, if any
None == <<>>
Some(v) == <<v>>
OptTotals == {None} \cup {Some(v) : v \in Totals}
Errors == {"io"}
\* the description a caller passes: a text of its own, no lookup result
Descriptions == {[text |-> "custom"]}

\* the arguments of get_size_display, as bits: small values around the
\* steps of the ladder, and the largest values of every width up to usize's
USIZE_BITS == 64
Ones(n) == [i \in 1..n |-> 1]
SizeNats == {0, 1, 29, 58, 125, 300, 500, 999, 1000, 1500, 2000, 1234567}
TotalNats ==
    {0, 1, 100, 500, 999, 1000, 1001, 1500, 999999, 1000000, 1234567,
     2000000, 1000000000, 2147483647}
SizeInputs == {NatBits(n) : n \in SizeNats}
TotalInputs ==
    {NatBits(n) : n \in TotalNats} \cup {Ones(n) : n \in 32..USIZE_BITS}

FileProgression ==
    [kind : {"CurrentProgress"}, current : Currents, total : OptTotals]
    \cup [kind : {"ProgressComplete"}, total : OptTotals]
    \cup [kind : {"ProgressFailed"}, last_size : OptTotals, error : Errors]

(***************************************************************************)
(* TransferState handles: `inner` is the shared cell (the Arc), `origin`   *)
(* records the TransferState::new() call a handle descends from.           *)
(***************************************************************************)
TransferState_new(c) == [inner |-> c, origin |-> c]

\* clone, copying the value into another cell instead of sharing the Arc
TransferState_clone_deep(h) == [h EXCEPT !.inner = (h.inner % NumTasks) + 1]

\* #[derive(Clone)] on TransferState: the Arc is cloned, the cell is shared
TransferState_clone(h) == h

\* equality over every field that can be compared
FileProgress_eq_all_fields(self, other) ==
    /\ self.id = other.id
    /\ self.file = other.file
    /\ self.progress = other.progress
    /\ self.description = other.description
    /\ self.size = other.size
    /\ self.total_size = other.total_size

\* impl PartialEq for FileProgress
FileProgress_eq(self, other) ==
    /\ self.id = other.id
    /\ self.file = other.file
    /\ self.progress = other.progress
    /\ self.description = other.description

\* the FileProgress values `==` is applied to
EqInputs ==
    [id          : {1, 2},
     file        : {"a.txt", "b.txt"},
     progress    : {Starting, Cancelling(0)},
     size        : {0, 58},
     total_size  : {0, 100},
     description : {get_local_text("files.transfer-start"),
                    get_local_text("files.transfer-cancelling")},
     state       : {TransferState_new(1), TransferState_new(2)}]

(***************************************************************************)
(* TransferTracker, as functions of the tracker value                      *)
(* [file_progress_upload, file_progress_download].                         *)
(***************************************************************************)
\* TransferTracker::get_tracker_from / get_tracker
get_tracker(self, tracker) ==
    IF tracker = "FileUpload" THEN self.file_progress_upload
    ELSE self.file_progress_download

\* the tracker with the collection selected by `tracker` replaced
set_tracker(self, tracker, v) ==
    IF tracker = "FileUpload" THEN [self EXCEPT !.file_progress_upload = v]
    ELSE [self EXCEPT !.file_progress_download = v]

\* find, taking the last entry with the id
find_last(v, file_id) ==
    IF \E i \in 1..Len(v) : v[i].id = file_id
    THEN CHOOSE i \in 1..Len(v) :
             v[i].id = file_id /\ \A j \in (i + 1)..Len(v) : v[j].id # file_id
    ELSE 0

\* find, taking the first entry whatever its id
find_first(v, file_id) == IF Len(v) > 0 THEN 1 ELSE 0

\* .iter_mut().find(|p| file_id.eq(&p.id)): index of the first match, or 0
find(v, file_id) ==
    IF \E i \in 1..Len(v) : v[i].id = file_id
    THEN CHOOSE i \in 1..Len(v) :
             v[i].id = file_id /\ \A j \in 1..(i - 1) : v[j].id # file_id
    ELSE 0

\* start_file_transfer, inserting the new entry in front
start_file_transfer_front(self, id, file, state, tracker) ==
    set_tracker(self, tracker,
        <<[id          |-> id,
           file        |-> file,
           progress    |-> Starting,
           size        |-> 0,
           total_size  |-> 0,
           description |-> get_local_text("files.transfer-start"),
           state       |-> state]>> \o get_tracker(self, tracker))

\* start_file_transfer, pushing the new entry twice
start_file_transfer_twice(self, id, file, state, tracker) ==
    LET f == [id          |-> id,
              file        |-> file,
              progress    |-> Starting,
              size        |-> 0,
              total_size  |-> 0,
              description |-> get_local_text("files.transfer-start"),
              state       |-> state]
    IN  set_tracker(self, tracker, get_tracker(self, tracker) \o <<f, f>>)

\* TransferTracker::start_file_transfer
start_file_transfer(self, id, file, state, tracker) ==
    set_tracker(self, tracker,
        Append(get_tracker(self, tracker),
               [id          |-> id,
                file        |-> file,
                progress    |-> Starting,
                size        |-> 0,
                total_size  |-> 0,
                description |-> get_local_text("files.transfer-start"),
                state       |-> state]))

\* `current as f64 / total as f64 * 100.` cast `as u8`, 0 without a total
progress_of(current, total) ==
    IF total = None THEN 0
    ELSE F64ToInt(F64MulNat(F64DivNat(F64FromNat(current), total[1]), 100),
                  U8_MAX)

\* the values the model computes with, evaluated once
ProgressTable ==
    [c \in Currents, t \in OptTotals |-> progress_of(c, t)]

SizeDisplayTable ==
    [s \in Currents \cup {0}, t \in Totals \cup {0} |-> get_size_display(s, t)]

\* the CurrentProgress arm, taking the percent from the size stored before
\* the event
on_current_progress_stale(f, download, current, total) ==
    LET size       == current
        total_size == IF total # None THEN total[1] ELSE f.total_size
        progress   == ProgressTable[f.size, total]
        desc       == SizeDisplayTable[size, total_size]
    IN  [f EXCEPT
           !.size = size,
           !.total_size = total_size,
           !.description = get_local_text_with_args(
               IF download THEN "files.transfer-progress-upload"
               ELSE "files.transfer-progress-download",
               << <<"progress", ToString(progress)>>,
                  <<"size", desc[1]>>,
                  <<"total", desc[2]>> >>),
           !.progress = Progress(progress)]

\* the CurrentProgress arm, taking the percent from the stored total when
\* the event has none
on_current_progress_stored_total(f, download, current, total) ==
    LET size       == current
        total_size == IF total # None THEN total[1] ELSE f.total_size
        progress   == ProgressTable[current, Some(total_size)]
        desc       == SizeDisplayTable[size, total_size]
    IN  [f EXCEPT
           !.size = size,
           !.total_size = total_size,
           !.description = get_local_text_with_args(
               IF download THEN "files.transfer-progress-upload"
               ELSE "files.transfer-progress-download",
               << <<"progress", ToString(progress)>>,
                  <<"size", desc[1]>>,
                  <<"total", desc[2]>> >>),
           !.progress = Progress(progress)]

\* the match arms of update_file_upload, applied to the found entry f
on_current_progress(f, download, current, total) ==
    LET size       == current
        total_size == IF total # None THEN total[1] ELSE f.total_size
        progress   == ProgressTable[current, total]
        desc       == SizeDisplayTable[size, total_size]
    IN  [f EXCEPT
           !.size = size,
           !.total_size = total_size,
           !.description = get_local_text_with_args(
               IF download THEN "files.transfer-progress-upload"
               ELSE "files.transfer-progress-download",
               << <<"progress", ToString(progress)>>,
                  <<"size", desc[1]>>,
                  <<"total", desc[2]>> >>),
           !.progress = Progress(progress)]

\* the ProgressComplete arm, clearing total_size when the event has no total
on_progress_complete_clearing(f, total) ==
    LET total_size == IF total # None THEN total[1] ELSE 0
    IN  [f EXCEPT
           !.total_size = total_size,
           !.description = get_local_text_with_args(
               "files.transfer-finishing",
               << <<"size", format_size(total_size)>> >>),
           !.progress = Finishing]

on_progress_complete(f, total) ==
    LET total_size == IF total # None THEN total[1] ELSE f.total_size
    IN  [f EXCEPT
           !.total_size = total_size,
           !.description = get_local_text_with_args(
               "files.transfer-finishing",
               << <<"size", format_size(total_size)>> >>),
           !.progress = Finishing]

\* the ProgressFailed arm, restarting the percent at 0
on_progress_failed_reset(f, last_size, error) ==
    [f EXCEPT
       !.description = get_local_text_with_args(
           "files.transfer-error", << <<"error", error>> >>),
       !.total_size = IF last_size # None THEN last_size[1] ELSE f.total_size,
       !.progress = Error(0)]

on_progress_failed(f, last_size, error) ==
    [f EXCEPT
       !.description = get_local_text_with_args(
           "files.transfer-error", << <<"error", error>> >>),
       !.total_size = IF last_size # None THEN last_size[1] ELSE f.total_size,
       !.progress = Error(get_progress(f.progress))]

\* update_file_upload, dropping the events that arrive for an entry whose
\* cancellation was asked for
update_file_upload_unless_cancelling(self, file_id, progression, tracker) ==
    LET download == tracker = "FileDownload"
        v        == get_tracker(self, tracker)
        i        == find(v, file_id)
    IN  IF i = 0 THEN self
        ELSE IF v[i].progress.tag = "Cancelling" THEN self
        ELSE set_tracker(self, tracker, [v EXCEPT ![i] =
               CASE progression.kind = "CurrentProgress" ->
                      on_current_progress(v[i], download,
                          progression.current, progression.total)
                 [] progression.kind = "ProgressComplete" ->
                      on_progress_complete(v[i], progression.total)
                 [] progression.kind = "ProgressFailed" ->
                      on_progress_failed(v[i], progression.last_size,
                          progression.error)])

\* TransferTracker::update_file_upload
update_file_upload(self, file_id, progression, tracker) ==
    LET download == tracker = "FileDownload"
        v        == get_tracker(self, tracker)
        i        == find(v, file_id)
    IN  IF i = 0 THEN self
        ELSE set_tracker(self, tracker, [v EXCEPT ![i] =
               CASE progression.kind = "CurrentProgress" ->
                      on_current_progress(v[i], download,
                          progression.current, progression.total)
                 [] progression.kind = "ProgressComplete" ->
                      on_progress_complete(v[i], progression.total)
                 [] progression.kind = "ProgressFailed" ->
                      on_progress_failed(v[i], progression.last_size,
                          progression.error)])

\* update_file_description, putting the entry back to Starting as well
update_file_description_restarting(self, file_id, description, tracker) ==
    LET v == get_tracker(self, tracker)
        i == find(v, file_id)
    IN  IF i = 0 THEN self
        ELSE set_tracker(self, tracker, [v EXCEPT ![i] = [v[i] EXCEPT
               !.description = description,
               !.progress = Starting]])

\* TransferTracker::update_file_description
update_file_description(self, file_id, description, tracker) ==
    LET v == get_tracker(self, tracker)
        i == find(v, file_id)
    IN  IF i = 0 THEN self
        ELSE set_tracker(self, tracker,
                 [v EXCEPT ![i].description = description])

\* pause_file_upload, restarting the percent at 0
pause_file_upload_reset(self, file_id, tracker) ==
    LET v == get_tracker(self, tracker)
        i == find(v, file_id)
    IN  IF i = 0 THEN self
        ELSE set_tracker(self, tracker, [v EXCEPT ![i].progress = Paused(0)])

\* TransferTracker::pause_file_upload
pause_file_upload(self, file_id, tracker) ==
    LET v == get_tracker(self, tracker)
        i == find(v, file_id)
    IN  IF i = 0 THEN self
        ELSE LET f    == v[i]
                 desc == SizeDisplayTable[f.size, f.total_size]
             IN  set_tracker(self, tracker, [v EXCEPT ![i] = [f EXCEPT
                   !.description = get_local_text_with_args(
                       "files.transfer-paused",
                       << <<"progress", ToString(get_progress(f.progress))>>,
                          <<"size", desc[1]>>,
                          <<"total", desc[2]>> >>),
                   !.progress = Paused(get_progress(f.progress))]])

\* cancel_file_upload, restarting the percent at 0
cancel_file_upload_reset(self, file_id, tracker) ==
    LET v == get_tracker(self, tracker)
        i == find(v, file_id)
    IN  IF i = 0 THEN self
        ELSE set_tracker(self, tracker, [v EXCEPT ![i] = [v[i] EXCEPT
               !.description = get_local_text("files.transfer-cancelling"),
               !.progress = Cancelling(0)]])

\* TransferTracker::cancel_file_upload
cancel_file_upload(self, file_id, tracker) ==
    LET v == get_tracker(self, tracker)
        i == find(v, file_id)
    IN  IF i = 0 THEN self
        ELSE set_tracker(self, tracker, [v EXCEPT ![i] = [v[i] EXCEPT
               !.description = get_local_text("files.transfer-cancelling"),
               !.progress = Cancelling(get_progress(v[i].progress))]])

\* TransferTracker::error_file_upload
error_file_upload(self, file_id, tracker) ==
    LET v == get_tracker(self, tracker)
        i == find(v, file_id)
    IN  IF i = 0 THEN self
        ELSE set_tracker(self, tracker, [v EXCEPT ![i] = [v[i] EXCEPT
               !.progress = Error(get_progress(v[i].progress)),
               !.description = get_local_text("files.error-to-upload")]])

\* Vec::retain(|p| !file_id.eq(&p.id))
RECURSIVE retain_not(_, _)
retain_not(v, file_id) ==
    IF v = <<>> THEN <<>>
    ELSE IF Head(v).id = file_id THEN retain_not(Tail(v), file_id)
    ELSE <<Head(v)>> \o retain_not(Tail(v), file_id)

\* remove_file_upload, deleting the first matching entry only
remove_file_upload_first(self, file_id, tracker) ==
    LET v == get_tracker(self, tracker)
        i == find(v, file_id)
    IN  IF i = 0 THEN self
        ELSE set_tracker(self, tracker,
                 SubSeq(v, 1, i - 1) \o SubSeq(v, i + 1, Len(v)))

\* remove_file_upload, removing the id from both collections
remove_file_upload_both(self, file_id, tracker) ==
    [file_progress_upload   |-> retain_not(self.file_progress_upload, file_id),
     file_progress_download |-> retain_not(self.file_progress_download, file_id)]

\* TransferTracker::remove_file_upload
remove_file_upload(self, file_id, tracker) ==
    set_tracker(self, tracker, retain_not(get_tracker(self, tracker), file_id))

\* the filter_map of total_progress: the percents of Progress and Paused
RECURSIVE active_percents(_)
active_percents(v) ==
    IF v = <<>> THEN <<>>
    ELSE IF Head(v).progress.tag \in {"Progress", "Paused"}
         THEN <<Head(v).progress.p>> \o active_percents(Tail(v))
         ELSE active_percents(Tail(v))

RECURSIVE sum_u32(_)
sum_u32(ps) == IF ps = <<>> THEN 0 ELSE Head(ps) + sum_u32(Tail(ps))

\* total_progress, counting the entries of every status
total_progress_any_status(self) ==
    LET pct(v) == [i \in 1..Len(v) |-> get_progress(v[i].progress)]
        upload   == pct(self.file_progress_upload)
        download == pct(self.file_progress_download)
        count    == (Len(upload) + Len(download)) * 100
        sum      == sum_u32(upload) + sum_u32(download)
    IN  IF count > 0
        THEN F64ToInt(F64MulNat(F64DivNat(F64FromNat(sum), count), 100), I8_MAX)
        ELSE -1

\* TransferTracker::total_progress
total_progress(self) ==
    LET upload   == active_percents(self.file_progress_upload)
        download == active_percents(self.file_progress_download)
        count    == (Len(upload) + Len(download)) * 100
        sum      == sum_u32(upload) + sum_u32(download)
    IN  IF count > 0
        THEN F64ToInt(F64MulNat(F64DivNat(F64FromNat(sum), count), 100), I8_MAX)
        ELSE -1


(***************************************************************************)
(* State.                                                                  *)
(***************************************************************************)
VARIABLES
    cells,                  \* the TransferStates behind each Arc<Mutex<..>>
    lock,                   \* the task holding each cell's Mutex, or NoTask
    pc,                     \* where each task is in update / matches
    arg,                    \* the argument of the call a task is running
    tmp,                    \* update: the value of `v.swap(cancel)`
    res,                    \* matches: the value returned last
    held,                   \* the TransferState handle each task owns
    file_progress_upload,   \* TransferTracker.file_progress_upload
    file_progress_download, \* TransferTracker.file_progress_download
    ops,                    \* calls made so far
    last,                   \* the tracker call made last, with its arguments
    hist                    \* per origin: what the completed updates were;
                            \* odd and overlap are kept while none of them
                            \* carried cancel = true: whether an odd number
                            \* of update(false) completed, and whether two
                            \* of them were under way together

cellVars == <<cells, lock, pc, arg, tmp, res, hist>>
trackerVars == <<file_progress_upload, file_progress_download, ops, last>>
vars == <<cells, lock, pc, arg, tmp, res, held, file_progress_upload,
          file_progress_download, ops, last, hist>>

self == [file_progress_upload   |-> file_progress_upload,
         file_progress_download |-> file_progress_download]

NoArg == [cancel |-> FALSE, state |-> "Normal"]

Init ==
    /\ cells = [c \in Cells |-> "Normal"]
    /\ lock = [c \in Cells |-> NoTask]
    /\ pc = [t \in Tasks |-> "idle"]
    /\ arg = [t \in Tasks |-> NoArg]
    /\ tmp = [t \in Tasks |-> "Normal"]
    /\ res = [t \in Tasks |-> "none"]
    /\ held = [t \in Tasks |-> TransferState_new(t)]
    /\ file_progress_upload = <<>>
    /\ file_progress_download = <<>>
    /\ ops = 0
    /\ last = [op |-> "none"]
    /\ hist = [c \in Cells |-> [cancel |-> FALSE, race |-> FALSE,
                                mode |-> "Normal", odd |-> FALSE,
                                overlap |-> FALSE]]

(***************************************************************************)
(* TransferState::update and TransferState::matches, run by tasks.         *)
(***************************************************************************)
\* a lock that is granted again once its holder has read the value
LockFree_after_read(c) ==
    IF lock[c] = NoTask THEN TRUE ELSE pc[lock[c]] = "update_swapped"

\* a lock that is granted at once, whoever holds it
LockFree_always(c) == TRUE

\* tokio::sync::Mutex::lock: granted only while no task holds the mutex
LockFree(c) == lock[c] = NoTask

InUpdate(t) == pc[t] \in {"update_wait", "update_locked", "update_swapped"}

\* update(cancel) is called: the task starts awaiting the lock
UpdateCall(t, cancel) ==
    /\ pc[t] = "idle"
    /\ ops < MaxCalls
    /\ ops' = ops + 1
    /\ pc' = [pc EXCEPT ![t] = "update_wait"]
    /\ arg' = [arg EXCEPT ![t] = [cancel |-> cancel, state |-> "Normal"]]
    /\ hist' = [hist EXCEPT
                  ![held[t].origin].race =
                      @ \/ \E u \in Tasks \ {t} :
                               /\ InUpdate(u)
                               /\ held[u].origin = held[t].origin
                               /\ arg[u].cancel # cancel,
                  ![held[t].origin].overlap =
                      /\ ~hist[held[t].origin].cancel
                      /\ @ \/ \E u \in Tasks \ {t} :
                                  /\ InUpdate(u)
                                  /\ held[u].origin = held[t].origin
                                  /\ ~arg[u].cancel
                                  /\ ~cancel]
    /\ UNCHANGED <<cells, lock, tmp, res, held, file_progress_upload,
                   file_progress_download, last>>

\* `let mut v = self.inner.lock().await`
UpdateLock(t) ==
    /\ pc[t] = "update_wait"
    /\ LockFree(held[t].inner)
    /\ lock' = [lock EXCEPT ![held[t].inner] = t]
    /\ pc' = [pc EXCEPT ![t] = "update_locked"]
    /\ UNCHANGED <<cells, arg, tmp, res, held, hist, trackerVars>>

\* the right-hand side `v.swap(cancel)`
UpdateSwap(t) ==
    /\ pc[t] = "update_locked"
    /\ tmp' = [tmp EXCEPT ![t] = swap(cells[held[t].inner], arg[t].cancel)]
    /\ pc' = [pc EXCEPT ![t] = "update_swapped"]
    /\ UNCHANGED <<cells, lock, arg, res, held, hist, trackerVars>>

\* the assignment `*v = ..` and the drop of the guard at the end of update
UpdateStore(t) ==
    /\ pc[t] = "update_swapped"
    /\ cells' = [cells EXCEPT ![held[t].inner] = tmp[t]]
    /\ lock' = [lock EXCEPT ![held[t].inner] = NoTask]
    /\ pc' = [pc EXCEPT ![t] = "idle"]
    /\ arg' = [arg EXCEPT ![t] = NoArg]
    /\ tmp' = [tmp EXCEPT ![t] = "Normal"]
    /\ hist' = [hist EXCEPT ![held[t].origin] =
                   [cancel  |-> @.cancel \/ arg[t].cancel,
                    race    |-> @.race,
                    mode    |-> tmp[t],
                    odd     |-> ~(@.cancel \/ arg[t].cancel) /\ ~@.odd,
                    overlap |-> ~(@.cancel \/ arg[t].cancel) /\ @.overlap]]
    /\ UNCHANGED <<res, held, trackerVars>>

\* matches(state) is called: the task starts awaiting the lock
MatchesCall(t, state) ==
    /\ pc[t] = "idle"
    /\ ops < MaxCalls
    /\ ops' = ops + 1
    /\ pc' = [pc EXCEPT ![t] = "matches_wait"]
    /\ arg' = [arg EXCEPT ![t] = [cancel |-> FALSE, state |-> state]]
    /\ res' = [res EXCEPT ![t] = "none"]
    /\ UNCHANGED <<cells, lock, tmp, held, hist, file_progress_upload,
                   file_progress_download, last>>

\* `self.inner.lock().await`
MatchesLock(t) ==
    /\ pc[t] = "matches_wait"
    /\ LockFree(held[t].inner)
    /\ lock' = [lock EXCEPT ![held[t].inner] = t]
    /\ pc' = [pc EXCEPT ![t] = "matches_locked"]
    /\ UNCHANGED <<cells, arg, tmp, res, held, hist, trackerVars>>

\* `*guard == state`, then the guard is dropped
MatchesRead(t) ==
    /\ pc[t] = "matches_locked"
    /\ res' = [res EXCEPT ![t] = IF cells[held[t].inner] = arg[t].state
                                  THEN "true" ELSE "false"]
    /\ lock' = [lock EXCEPT ![held[t].inner] = NoTask]
    /\ pc' = [pc EXCEPT ![t] = "idle"]
    /\ arg' = [arg EXCEPT ![t] = NoArg]
    /\ UNCHANGED <<cells, tmp, held, hist, trackerVars>>

\* a task replaces its handle by a clone of another task's handle
CloneHeld(t, u) ==
    /\ pc[t] = "idle"
    /\ t # u
    /\ ops < MaxCalls
    /\ ops' = ops + 1
    /\ held' = [held EXCEPT ![t] = TransferState_clone(held[u])]
    /\ UNCHANGED <<cellVars, file_progress_upload, file_progress_download,
                   last>>

\* a task replaces its handle by a clone of the one stored in a File Entry
CloneEntryState(t, tracker, i) ==
    /\ pc[t] = "idle"
    /\ i \in 1..Len(get_tracker(self, tracker))
    /\ ops < MaxCalls
    /\ ops' = ops + 1
    /\ held' = [held EXCEPT
                  ![t] = TransferState_clone(get_tracker(self, tracker)[i].state)]
    /\ UNCHANGED <<cellVars, file_progress_upload, file_progress_download,
                   last>>

(***************************************************************************)
(* The TransferTracker calls.  The tracker is not synchronised itself: its *)
(* callers serialise the calls, so each call is one step.                  *)
(***************************************************************************)
\* a call that also toggles the cell of the entry it pauses or cancels
Call_toggling(result, call) ==
    LET v == get_tracker(self, call.tracker)
        i == find(v, call.id)
    IN  /\ ops < MaxOps
        /\ Len(result.file_progress_upload) <= MaxEntries
        /\ Len(result.file_progress_download) <= MaxEntries
        /\ file_progress_upload' = result.file_progress_upload
        /\ file_progress_download' = result.file_progress_download
        /\ ops' = ops + 1
        /\ last' = call
        /\ cells' = IF call.op \in {"pause_file_upload", "cancel_file_upload"}
                       /\ i # 0
                    THEN [cells EXCEPT ![v[i].state.inner] =
                             swap(@, call.op = "cancel_file_upload")]
                    ELSE cells
        /\ UNCHANGED <<lock, pc, arg, tmp, res, hist, held>>

\* a `&mut self` call of the tracker: it assigns the collections only, no
\* handler locks the `state` of an entry
Call(result, call) ==
    /\ ops < MaxOps
    /\ Len(result.file_progress_upload) <= MaxEntries
    /\ Len(result.file_progress_download) <= MaxEntries
    /\ file_progress_upload' = result.file_progress_upload
    /\ file_progress_download' = result.file_progress_download
    /\ ops' = ops + 1
    /\ last' = call
    /\ UNCHANGED <<cellVars, held>>

\* the length of the selected collection when a call is made
Before(tracker) == Len(get_tracker(self, tracker))

\* the status the call finds: the tag of the first entry with the id in the
\* selected collection, "absent" without one
Was(file_id, tracker) ==
    LET v == get_tracker(self, tracker)
    IN  IF find(v, file_id) = 0 THEN "absent"
        ELSE v[find(v, file_id)].progress.tag

\* start_file_transfer with a clone of the handle of task t
StartFileTransfer(id, file, t, tracker) ==
    LET state == TransferState_clone(held[t])
    IN  Call(start_file_transfer(self, id, file, state, tracker),
             [op |-> "start_file_transfer", id |-> id, file |-> file,
              state |-> state, tracker |-> tracker, len |-> Before(tracker)])

UpdateFileUpload(file_id, progression, tracker) ==
    Call(update_file_upload(self, file_id, progression, tracker),
         [op |-> "update_file_upload", id |-> file_id,
          progression |-> progression, tracker |-> tracker,
          len |-> Before(tracker), was |-> Was(file_id, tracker)])

UpdateFileDescription(file_id, description, tracker) ==
    Call(update_file_description(self, file_id, description, tracker),
         [op |-> "update_file_description", id |-> file_id,
          description |-> description, tracker |-> tracker,
          len |-> Before(tracker), was |-> Was(file_id, tracker)])

PauseFileUpload(file_id, tracker) ==
    Call(pause_file_upload(self, file_id, tracker),
         [op |-> "pause_file_upload", id |-> file_id, tracker |-> tracker,
          len |-> Before(tracker), was |-> Was(file_id, tracker)])

CancelFileUpload(file_id, tracker) ==
    Call(cancel_file_upload(self, file_id, tracker),
         [op |-> "cancel_file_upload", id |-> file_id, tracker |-> tracker,
          len |-> Before(tracker), was |-> Was(file_id, tracker)])

ErrorFileUpload(file_id, tracker) ==
    Call(error_file_upload(self, file_id, tracker),
         [op |-> "error_file_upload", id |-> file_id, tracker |-> tracker,
          len |-> Before(tracker), was |-> Was(file_id, tracker)])

RemoveFileUpload(file_id, tracker) ==
    Call(remove_file_upload(self, file_id, tracker),
         [op |-> "remove_file_upload", id |-> file_id, tracker |-> tracker,
          len |-> Before(tracker), was |-> Was(file_id, tracker)])

(***************************************************************************)
(* Specifications: the tracker under its serialised calls, and the cells   *)
(* under concurrent tasks, which start uploads to share their handles with *)
(* File Entries.                                                           *)
(***************************************************************************)
Next ==
    \* the cells do not change under Next: task 1's handle stands for any
    \/ \E id \in Uuids, file \in Files, tracker \in TrackerType :
           StartFileTransfer(id, file, 1, tracker)
    \/ \E id \in Uuids, p \in FileProgression, tracker \in TrackerType :
           UpdateFileUpload(id, p, tracker)
    \/ \E id \in Uuids, d \in Descriptions, tracker \in TrackerType :
           UpdateFileDescription(id, d, tracker)
    \/ \E id \in Uuids, tracker \in TrackerType : PauseFileUpload(id, tracker)
    \/ \E id \in Uuids, tracker \in TrackerType : CancelFileUpload(id, tracker)
    \/ \E id \in Uuids, tracker \in TrackerType : ErrorFileUpload(id, tracker)
    \/ \E id \in Uuids, tracker \in TrackerType : RemoveFileUpload(id, tracker)

Spec == Init /\ [][Next]_vars

NextCell ==
    \/ \E t \in Tasks, cancel \in BOOLEAN : UpdateCall(t, cancel)
    \/ \E t \in Tasks : UpdateLock(t)
    \/ \E t \in Tasks : UpdateSwap(t)
    \/ \E t \in Tasks : UpdateStore(t)
    \/ \E t \in Tasks, state \in TransferStates : MatchesCall(t, state)
    \/ \E t \in Tasks : MatchesLock(t)
    \/ \E t \in Tasks : MatchesRead(t)
    \/ \E t, u \in Tasks : CloneHeld(t, u)
    \/ \E t \in Tasks, tracker \in TrackerType, i \in 1..MaxEntries :
           CloneEntryState(t, tracker, i)
    \/ \E file \in Files, t \in Tasks :
           StartFileTransfer(1, file, t, "FileUpload")
    \/ PauseFileUpload(1, "FileUpload")
    \/ CancelFileUpload(1, "FileUpload")

SpecCell == Init /\ [][NextCell]_vars

\* get_size_display is an associated function of its two arguments alone: a
\* behaviour calls it once, on any of the inputs
GetSizeDisplay(size, total) ==
    /\ last.op = "none"
    /\ last' = [op        |-> "get_size_display",
                size      |-> size,
                total     |-> total,
                scale_idx |-> ScaleTotal(F64FromBits(total), 0).scale_idx,
                result    |-> get_size_display_bits(size, total)]
    /\ UNCHANGED <<cellVars, held, file_progress_upload,
                   file_progress_download, ops>>

\* `a == b` on two FileProgress values, once in a behaviour
EqCall(a, b) ==
    /\ last.op = "none"
    /\ last' = [op |-> "eq", self |-> a, other |-> b,
                result |-> FileProgress_eq(a, b)]
    /\ UNCHANGED <<cellVars, held, file_progress_upload,
                   file_progress_download, ops>>

NextEq == \E a \in EqInputs, b \in EqInputs : EqCall(a, b)

SpecEq == Init /\ [][NextEq]_vars

NextSize ==
    \E size \in SizeInputs, total \in TotalInputs : GetSizeDisplay(size, total)

SpecSize == Init /\ [][NextSize]_vars


(***************************************************************************)
(* Properties.                                                             *)
(***************************************************************************)
selfNext == [file_progress_upload   |-> file_progress_upload',
             file_progress_download |-> file_progress_download']

\* the transition table of the Transfer State Cell, row by row
ToggleTable ==
    [m \in TransferStates, wantCancel \in BOOLEAN |->
        CASE m = "Normal" /\ ~wantCancel -> "Pause"
          [] m = "Normal" /\ wantCancel  -> "Cancel"
          [] m = "Pause"  /\ ~wantCancel -> "Normal"
          [] m = "Pause"  /\ wantCancel  -> "Cancel"
          [] m = "Cancel" -> "Cancel"]

\* no update is under way on a handle descending from origin c
Quiescent(c) == \A u \in Tasks : InUpdate(u) => held[u].origin # c

\* C1: every completed update(wantCancel) leaves in the cell exactly the mode
\* the transition table gives for the mode it found and wantCancel
C1_ToggleFollowsTable ==
    [][\A t \in Tasks :
          pc[t] = "update_swapped" /\ pc'[t] = "idle" =>
              cells'[held[t].inner] =
                  ToggleTable[cells[held[t].inner], arg[t].cancel]]_vars

\* C1 witness: a pause request has met a paused cell and computed Normal
C1_Witness ==
    \E t \in Tasks :
        /\ pc[t] = "update_swapped"
        /\ cells[held[t].inner] = "Pause"
        /\ ~arg[t].cancel
        /\ tmp[t] = "Normal"

\* C2: a cell whose mode is Cancel has the mode Cancel after every step
C2_CancelAbsorbing ==
    [][\A c \in Cells : cells[c] = "Cancel" => cells'[c] = "Cancel"]_vars

\* C2 witness: a pause request has met a cancelled cell and computed Cancel
C2_Witness ==
    \E t \in Tasks :
        /\ pc[t] = "update_swapped"
        /\ cells[held[t].inner] = "Cancel"
        /\ ~arg[t].cancel
        /\ tmp[t] = "Cancel"

\* C3: once the updates issued on a cell have all completed and one of them
\* carried cancel = true, the mode of the cell is Cancel
C3_CancelWinsRace ==
    \A t \in Tasks :
        hist[held[t].origin].cancel /\ Quiescent(held[t].origin) =>
            cells[held[t].inner] = "Cancel"

\* C3 witness: a pause and a cancel request were under way together on one
\* cell and both have completed
C3_Witness ==
    \E c \in Cells :
        /\ hist[c].race
        /\ hist[c].cancel
        /\ Quiescent(c)
        /\ cells[c] = "Cancel"

\* C4: matches(m) through any handle returns true exactly when m is the mode
\* stored by the last update completed through any clone of that handle
C4_ClonesShareOneMode ==
    [][\A t \in Tasks :
          pc[t] = "matches_locked" /\ pc'[t] = "idle" =>
              (res'[t] = "true") = (hist[held[t].origin].mode = arg[t].state)]_vars

\* C4 witness: a task read Pause through its handle while a File Entry and
\* another task hold clones of that handle
C4_Witness ==
    \E t \in Tasks, u \in Tasks, tracker \in TrackerType :
        /\ t # u
        /\ res[t] = "true"
        /\ hist[held[t].origin].mode = "Pause"
        /\ held[u] = held[t]
        /\ \E i \in 1..Len(get_tracker(self, tracker)) :
               get_tracker(self, tracker)[i].state = held[t]


\* the tracker call made by the step, if the step is a tracker call
Called(op) == ops' = ops + 1 /\ last'.op = op

Other(tracker) ==
    IF tracker = "FileUpload" THEN "FileDownload" ELSE "FileUpload"

Absent(v, id) == \A i \in 1..Len(v) : v[i].id # id

\* the position of the earliest entry of v with this id (v has one)
First(v, id) ==
    CHOOSE i \in 1..Len(v) : v[i].id = id /\ \A j \in 1..(i - 1) : v[j].id # id

TargetedCalls ==
    {"update_file_upload", "update_file_description", "pause_file_upload",
     "cancel_file_upload", "error_file_upload", "remove_file_upload"}

\* C5: a targeted call (update_file_upload with any event,
\* update_file_description, pause, cancel, error, remove) whose id is not in
\* the selected collection changes neither collection
C5_AbsentIdIsNoOp ==
    [][\A op \in TargetedCalls :
          Called(op) /\ Absent(get_tracker(self, last'.tracker), last'.id) =>
              /\ file_progress_upload' = file_progress_upload
              /\ file_progress_download' = file_progress_download]_vars

\* C5 witness: a progression event was applied for an id that the selected,
\* non-empty collection does not hold
C5_Witness ==
    /\ last.op = "update_file_upload"
    /\ get_tracker(self, last.tracker) # <<>>
    /\ Absent(get_tracker(self, last.tracker), last.id)

\* what a call on an entry that is present does to that entry
TakesEffect(call, f) ==
    CASE call.op = "update_file_upload" ->
             f.progress.tag =
                 (CASE call.progression.kind = "CurrentProgress" -> "Progress"
                    [] call.progression.kind = "ProgressComplete" -> "Finishing"
                    [] call.progression.kind = "ProgressFailed" -> "Error")
      [] call.op = "update_file_description" ->
             f.description = call.description
      [] call.op = "pause_file_upload"  -> f.progress.tag = "Paused"
      [] call.op = "cancel_file_upload" -> f.progress.tag = "Cancelling"
      [] call.op = "error_file_upload"  -> f.progress.tag = "Error"

\* C6: remove leaves no entry with the id in the selected collection; while
\* the id is not there the five mutating calls on it change nothing and only
\* start_file_transfer for that id and collection brings it back; once it is
\* there the five calls act on its earliest entry
C6_RemovedUntilRestarted ==
    [][\A id \in Uuids, tracker \in TrackerType :
          LET v  == get_tracker(self, tracker)
              w  == get_tracker(selfNext, tracker)
              on == last'.id = id /\ last'.tracker = tracker
          IN  /\ Called("remove_file_upload") /\ on => Absent(w, id)
              /\ \A op \in TargetedCalls \ {"remove_file_upload"} :
                     Called(op) /\ on =>
                         IF Absent(v, id) THEN selfNext = self
                         ELSE TakesEffect(last', w[First(v, id)])
              /\ Absent(v, id) /\ ~Absent(w, id) =>
                     Called("start_file_transfer") /\ on]_vars

\* C6 witness: a remove call has deleted an entry
C6_Witness ==
    /\ last.op = "remove_file_upload"
    /\ Len(get_tracker(self, last.tracker)) < last.len
    /\ Absent(get_tracker(self, last.tracker), last.id)

\* C7: start_file_transfer appends to the selected collection one entry with
\* the given id, name and handle, Starting, both counters 0 and the start
\* text, and changes nothing else
C7_StartAppendsEntry ==
    [][Called("start_file_transfer") =>
          /\ get_tracker(selfNext, last'.tracker) =
                 Append(get_tracker(self, last'.tracker),
                        [id          |-> last'.id,
                         file        |-> last'.file,
                         progress    |-> [tag |-> "Starting"],
                         size        |-> 0,
                         total_size  |-> 0,
                         description |-> [key  |-> "files.transfer-start",
                                          args |-> <<>>],
                         state       |-> last'.state])
          /\ get_tracker(selfNext, Other(last'.tracker)) =
                 get_tracker(self, Other(last'.tracker))]_vars

\* C7 witness: a transfer was started in a collection that already held an
\* entry in progress
C7_Witness ==
    /\ last.op = "start_file_transfer"
    /\ Len(get_tracker(self, last.tracker)) = 2
    /\ get_tracker(self, last.tracker)[1].progress.tag = "Progress"
    /\ get_tracker(self, last.tracker)[2].progress.tag = "Starting"

\* C8, as claimed: CurrentProgress{current, total} with a total, applied to
\* an entry that is present, sets size to current, total_size to total and
\* the status to Progress(floor(current / total * 100))
C8_ProgressIsFloorOfRatio ==
    [][\A id \in Uuids, tracker \in TrackerType :
          LET v == get_tracker(self, tracker)
              w == get_tracker(selfNext, tracker)
              e == last'.progression
          IN  (/\ Called("update_file_upload")
               /\ last'.id = id /\ last'.tracker = tracker
               /\ e.kind = "CurrentProgress" /\ e.total # None
               /\ ~Absent(v, id)) =>
                  /\ w[First(v, id)].size = e.current
                  /\ w[First(v, id)].total_size = e.total[1]
                  /\ e.total[1] > 0 =>
                         w[First(v, id)].progress =
                             [tag |-> "Progress",
                              p   |-> (e.current * 100) \div e.total[1]]]_vars

AllEntries ==
    {file_progress_upload[i] : i \in 1..Len(file_progress_upload)}
        \cup {file_progress_download[i] : i \in 1..Len(file_progress_download)}

\* C9, as claimed: the percent of every entry's status is within 0..100
C9_PercentWithin0To100 ==
    \A f \in AllEntries :
        f.progress.tag \in {"Progress", "Paused", "Cancelling", "Error"} =>
            f.progress.p \in 0..100

\* C10, as claimed: total_progress returns an integer in -1..100
C10_TotalProgressWithinRange == total_progress(self) \in -1..100

\* the entries total_progress averages over: status Progress or Paused
Active(f) == f.progress.tag \in {"Progress", "Paused"}

ActiveEntries(v) == {i \in 1..Len(v) : Active(v[i])}

NoneActive ==
    /\ ActiveEntries(file_progress_upload) = {}
    /\ ActiveEntries(file_progress_download) = {}

\* C11: total_progress returns -1 exactly when no entry of either collection
\* is Progress or Paused, and 0 when every Progress or Paused entry is at 0
\* percent, whatever the entries of the other statuses carry
C11_SentinelIffNoneActive ==
    /\ (total_progress(self) = -1) <=> NoneActive
    /\ (/\ ~NoneActive
        /\ \A f \in AllEntries : Active(f) => f.progress.p = 0)
           => total_progress(self) = 0

\* C11 witness: the only active entry is at 0 percent, beside an entry that
\* is Starting, and total_progress is 0
C11_Witness ==
    /\ total_progress(self) = 0
    /\ \E f \in AllEntries : f.progress = [tag |-> "Progress", p |-> 0]
    /\ \E f \in AllEntries : f.progress.tag = "Starting"

\* the sum and the number of the percents of the Progress and Paused entries
PercentSum(v) ==
    sum_u32([i \in 1..Len(v) |-> IF Active(v[i]) THEN v[i].progress.p ELSE 0])

ActiveSum == PercentSum(file_progress_upload) + PercentSum(file_progress_download)

ActiveCount ==
    Cardinality(ActiveEntries(file_progress_upload))
        + Cardinality(ActiveEntries(file_progress_download))

\* a / b rounded to the nearest integer, halves upwards
RoundDiv(a, b) == (2 * a + b) \div (2 * b)

\* C12, as claimed: with at least one Progress or Paused entry, total_progress
\* is round(sum(percent) / count) over the Progress and Paused entries of
\* both collections; stated for the trackers whose percents are all within
\* 0..100, where the casts of total_progress do not saturate
C12_TotalProgressIsRoundedMean ==
    (ActiveCount > 0 /\ C9_PercentWithin0To100) =>
        total_progress(self) = RoundDiv(ActiveSum, ActiveCount)

TrackerCalls == TargetedCalls \cup {"start_file_transfer"}

\* C13: a tracker call leaves the mode of every cell as it was, and a mode
\* changes only in the step that completes a TransferState::update
C13_TrackerLeavesCellsAlone ==
    [][/\ (\E op \in TrackerCalls : Called(op)) => cells' = cells
       /\ cells' # cells =>
              \E t \in Tasks : pc[t] = "update_swapped" /\ pc'[t] = "idle"]_vars

\* C13 witness: pause_file_upload has set an entry to Paused whose cell had
\* been cancelled, and the cell still holds Cancel
C13_Witness ==
    /\ last.op = "pause_file_upload"
    /\ Len(file_progress_upload) > 0
    /\ file_progress_upload[1].progress.tag = "Paused"
    /\ cells[file_progress_upload[1].state.inner] = "Cancel"

\* TransferProgress::get_progress as the specification words it: the percent
\* of the statuses that carry one, 0 for Starting and Finishing
percentOrZero(status) ==
    IF status.tag \in {"Starting", "Finishing"} THEN 0 ELSE status.p

\* the step is the call `op` on an entry that is present: the entry before
\* and after the call
Target == get_tracker(self, last'.tracker)[First(get_tracker(self, last'.tracker), last'.id)]

TargetNext ==
    get_tracker(selfNext, last'.tracker)[First(get_tracker(self, last'.tracker), last'.id)]

CalledOnPresent(op) ==
    Called(op) /\ ~Absent(get_tracker(self, last'.tracker), last'.id)

\* C14: pause_file_upload on a present entry sets the status to Paused(p), p
\* the percent of the status before the call (0 for Starting and Finishing),
\* and leaves id, file, size and total_size as they were
C14_PauseKeepsPercent ==
    [][CalledOnPresent("pause_file_upload") =>
          /\ TargetNext.progress =
                 [tag |-> "Paused", p |-> percentOrZero(Target.progress)]
          /\ TargetNext.id = Target.id
          /\ TargetNext.file = Target.file
          /\ TargetNext.size = Target.size
          /\ TargetNext.total_size = Target.total_size]_vars

\* C14 witness: an entry in progress at a percent above 0 was paused
C14_Witness ==
    /\ last.op = "pause_file_upload"
    /\ \E i \in 1..Len(get_tracker(self, last.tracker)) :
           LET f == get_tracker(self, last.tracker)[i]
           IN  /\ f.id = last.id
               /\ f.progress.tag = "Paused"
               /\ f.progress.p > 0
               /\ f.size > 0

\* C15: on a present entry cancel_file_upload sets the status to Cancelling(p)
\* and error_file_upload to Error(p), p the percent of the status before the
\* call; the description becomes the fixed cancelling / error text and size
\* and total_size stay as they were
C15_CancelAndErrorKeepPercent ==
    [][/\ CalledOnPresent("cancel_file_upload") =>
              /\ TargetNext.progress =
                     [tag |-> "Cancelling", p |-> percentOrZero(Target.progress)]
              /\ TargetNext.description =
                     [key |-> "files.transfer-cancelling", args |-> <<>>]
              /\ TargetNext.size = Target.size
              /\ TargetNext.total_size = Target.total_size
       /\ CalledOnPresent("error_file_upload") =>
              /\ TargetNext.progress =
                     [tag |-> "Error", p |-> percentOrZero(Target.progress)]
              /\ TargetNext.description =
                     [key |-> "files.error-to-upload", args |-> <<>>]
              /\ TargetNext.size = Target.size
              /\ TargetNext.total_size = Target.total_size]_vars

\* C15 witness: an entry in progress at a percent above 0 was cancelled
C15_Witness ==
    /\ last.op = "cancel_file_upload"
    /\ \E i \in 1..Len(get_tracker(self, last.tracker)) :
           LET f == get_tracker(self, last.tracker)[i]
           IN  /\ f.id = last.id
               /\ f.progress.tag = "Cancelling"
               /\ f.progress.p > 0
               /\ f.total_size > 0

\* the step applies an event of this kind to an entry that is present
Applied(kind) ==
    CalledOnPresent("update_file_upload") /\ last'.progression.kind = kind

\* C16: ProgressFailed{last_size, error} on a present entry sets the status
\* to Error(p), p the percent of the status before the event, sets total_size
\* to last_size when there is one and leaves it otherwise, and leaves size
C16_FailedKeepsPercent ==
    [][Applied("ProgressFailed") =>
          LET e == last'.progression
          IN  /\ TargetNext.progress =
                     [tag |-> "Error", p |-> percentOrZero(Target.progress)]
              /\ TargetNext.total_size =
                     IF e.last_size # None THEN e.last_size[1]
                     ELSE Target.total_size
              /\ TargetNext.size = Target.size]_vars

\* C16 witness: a transfer in progress at a percent above 0 failed with a
\* last_size that differs from the total stored before
C16_Witness ==
    /\ last.op = "update_file_upload"
    /\ last.progression.kind = "ProgressFailed"
    /\ last.progression.last_size = Some(0)
    /\ \E i \in 1..Len(get_tracker(self, last.tracker)) :
           LET f == get_tracker(self, last.tracker)[i]
           IN  /\ f.id = last.id
               /\ f.progress.tag = "Error"
               /\ f.progress.p \in 1..100
               /\ f.size > 0
               /\ f.total_size = 0

\* C17: ProgressComplete{total} on a present entry sets the status to
\* Finishing whatever the status was, sets total_size to total when there is
\* one and leaves it otherwise, and leaves size
C17_CompleteSetsFinishing ==
    [][Applied("ProgressComplete") =>
          LET e == last'.progression
          IN  /\ TargetNext.progress = [tag |-> "Finishing"]
              /\ TargetNext.total_size =
                     IF e.total # None THEN e.total[1] ELSE Target.total_size
              /\ TargetNext.size = Target.size]_vars

\* C17 witness: an event without a total completed a transfer whose counters
\* are both above 0
C17_Witness ==
    /\ last.op = "update_file_upload"
    /\ last.progression = [kind |-> "ProgressComplete", total |-> None]
    /\ \E i \in 1..Len(get_tracker(self, last.tracker)) :
           LET f == get_tracker(self, last.tracker)[i]
           IN  /\ f.id = last.id
               /\ f.progress.tag = "Finishing"
               /\ f.size > 0
               /\ f.total_size > 0

\* C18: CurrentProgress{current, total: None} on a present entry sets size to
\* current, leaves total_size, sets the status to Progress(0) whatever total
\* is stored, and gives the description the size and total texts of
\* get_size_display(current, stored total_size)
C18_NoTotalUsesStoredTotal ==
    [][(Applied("CurrentProgress") /\ last'.progression.total = None) =>
          LET e == last'.progression
              d == get_size_display(e.current, Target.total_size)
          IN  /\ TargetNext.size = e.current
              /\ TargetNext.total_size = Target.total_size
              /\ TargetNext.progress = [tag |-> "Progress", p |-> 0]
              /\ TargetNext.description.args[2] = <<"size", d[1]>>
              /\ TargetNext.description.args[3] = <<"total", d[2]>>]_vars

\* C18 witness: an event without a total has updated an entry that had a
\* total above 0 stored; the entry is at Progress(0) with both counters
\* above 0
C18_Witness ==
    /\ last.op = "update_file_upload"
    /\ last.progression.kind = "CurrentProgress"
    /\ last.progression.total = None
    /\ \E i \in 1..Len(get_tracker(self, last.tracker)) :
           LET f == get_tracker(self, last.tracker)[i]
           IN  /\ f.id = last.id
               /\ f.progress = [tag |-> "Progress", p |-> 0]
               /\ f.size > 0
               /\ f.total_size > 0
               /\ f.description.args[3] = <<"total", "100 B">>

\* C19: every tracker call made with a TrackerType leaves the collection of
\* the other TrackerType as it was, entries with the same id included
C19_OtherCollectionUntouched ==
    [][\A op \in TrackerCalls :
          Called(op) =>
              get_tracker(selfNext, Other(last'.tracker)) =
                  get_tracker(self, Other(last'.tracker))]_vars

\* C19 witness: an id held by both collections was removed from one of them
\* and the other still holds it
C19_Witness ==
    /\ last.op = "remove_file_upload"
    /\ Len(get_tracker(self, last.tracker)) < last.len
    /\ Absent(get_tracker(self, last.tracker), last.id)
    /\ ~Absent(get_tracker(self, Other(last.tracker)), last.id)

\* no two entries of the collection have the same id
Unique(v) == \A i, j \in 1..Len(v) : v[i].id = v[j].id => i = j

UniqueIds == Unique(file_progress_upload) /\ Unique(file_progress_download)

\* the step calls start_file_transfer with an id the selected collection holds
DuplicateStart ==
    /\ Called("start_file_transfer")
    /\ ~Absent(get_tracker(self, last'.tracker), last'.id)

\* C20: the ids are unique within each collection at the start, and every
\* call other than a start_file_transfer with an id that the selected
\* collection holds keeps them unique; so they are unique in every state
\* reached without such a call
C20_UniqueIdsUnlessDuplicateStart ==
    /\ UniqueIds
    /\ [][(UniqueIds /\ ~DuplicateStart) => UniqueIds']_vars

\* C20 witness: without a duplicate start, one collection holds two ids and
\* the other collection holds one of them too
C20_Witness ==
    /\ UniqueIds
    /\ \E tracker \in TrackerType :
           LET v == get_tracker(self, tracker)
               w == get_tracker(self, Other(tracker))
           IN  /\ Len(v) = 2
               /\ Len(w) = 1
               /\ w[1].id = v[1].id

\* C21: update_file_description on a present entry replaces the description
\* of that entry by the text given and nothing else: its id, file, progress,
\* size, total_size and state, the other entries of the collection and the
\* other collection are as before
C21_DescriptionOnlyOverwritten ==
    [][CalledOnPresent("update_file_description") =>
          LET v == get_tracker(self, last'.tracker)
          IN  /\ get_tracker(selfNext, last'.tracker) =
                     [v EXCEPT ![First(v, last'.id)].description =
                                   last'.description]
              /\ get_tracker(selfNext, Other(last'.tracker)) =
                     get_tracker(self, Other(last'.tracker))]_vars

\* C21 witness: the description of an entry in progress, with both counters
\* above 0, was overwritten
C21_Witness ==
    /\ last.op = "update_file_description"
    /\ ~Absent(get_tracker(self, last.tracker), last.id)
    /\ LET v == get_tracker(self, last.tracker)
           f == v[First(v, last.id)]
       IN  /\ f.description = last.description
           /\ f.progress.tag = "Progress"
           /\ f.size > 0
           /\ f.total_size > 0

\* the number of divisions by 1000 that bring n below 1000
RECURSIVE RefScaleIdx(_)
RefScaleIdx(n) == IF n < 1000 THEN 0 ELSE 1 + RefScaleIdx(n \div 1000)

\* the texts of n / 1000^k: no decimals when the quotient is integral, else
\* the nearest value with 2 decimals (either neighbour at a tie)
RefText(n, k) ==
    LET D == 1000 ^ k
    IN  IF n % D = 0 THEN {ToString(n \div D)}
        ELSE LET E  == D \div 100
                 lo == n \div E
                 r  == n % E
                 hs == IF 2 * r < E THEN {lo}
                       ELSE IF 2 * r > E THEN {lo + 1}
                       ELSE {lo, lo + 1}
             IN  {ToString(h \div 100) \o "." \o TwoDigits(h % 100) : h \in hs}

\* the call made was get_size_display(size, total)
SizeDisplayOf(size, total) ==
    /\ last.op = "get_size_display"
    /\ last.size = NatBits(size)
    /\ last.total = NatBits(total)

\* C22: get_size_display(size, total) gives size / 1000^k and total / 1000^k
\* with the unit of rank k, k the number of divisions by 1000 that bring
\* total below 1000, whatever size is; integral quotients have no decimals,
\* the others 2; (1500, 2000000) gives ("0.00", "2 MB") and (500, 500) gives
\* ("500", "500 B")
C22_SizeScaledByTotalsIndex ==
    /\ \A size \in SizeNats, total \in TotalNats :
           SizeDisplayOf(size, total) =>
               LET k == RefScaleIdx(total)
               IN  /\ last.result # IndexPanic
                   /\ last.result[1] \in RefText(size, k)
                   /\ last.result[2] \in
                          {t \o " " \o SCALE_DECIMAL[k + 1] : t \in RefText(total, k)}
    /\ SizeDisplayOf(1500, 2000000) => last.result = <<"0.00", "2 MB">>
    /\ SizeDisplayOf(500, 500) => last.result = <<"500", "500 B">>

\* C22 witness: get_size_display(1500, 2000000) has returned ("0.00", "2 MB")
C22_Witness ==
    /\ SizeDisplayOf(1500, 2000000)
    /\ last.result = <<"0.00", "2 MB">>

\* C23: for every total a usize can hold, the scale index get_size_display
\* computes is a position of SCALE_DECIMAL (0..8 counted from 0) and the
\* indexing does not panic
C23_ScaleIndexWithinLadder ==
    last.op = "get_size_display" =>
        /\ last.scale_idx \in 0..8
        /\ last.scale_idx + 1 \in DOMAIN SCALE_DECIMAL
        /\ last.result # IndexPanic

\* C23 witness: the total was usize::MAX; its scale index is 6 and its text
\* carries the unit EB
C23_Witness ==
    /\ last.op = "get_size_display"
    /\ last.total = Ones(USIZE_BITS)
    /\ last.scale_idx = 6
    /\ last.result[2] = "18.45 EB"

\* C24: a CurrentProgress event applied to a present entry right after the
\* same event (same id, TrackerType, current and total) changes nothing:
\* the entry is as the first application left it
C24_CurrentProgressIdempotent ==
    [][(/\ Applied("CurrentProgress")
        /\ last.op = "update_file_upload"
        /\ last'.id = last.id
        /\ last'.tracker = last.tracker
        /\ last'.progression = last.progression) => selfNext = self]_vars

\* C24 witness: the third call of a run applied CurrentProgress{58, Some(100)}
\* to the only entry, which a CurrentProgress event had put in progress
C24_Witness ==
    /\ ops = 3
    /\ last.op = "update_file_upload"
    /\ last.was = "Progress"
    /\ last.progression =
           [kind |-> "CurrentProgress", current |-> 58, total |-> Some(100)]
    /\ Len(get_tracker(self, last.tracker)) = 1
    /\ get_tracker(self, Other(last.tracker)) = <<>>
    /\ get_tracker(self, last.tracker)[1].id = last.id
    /\ get_tracker(self, last.tracker)[1].progress = Progress(57)

\* C25: two FileProgress values are equal exactly when their id, file,
\* progress and description agree, whatever their size, total_size and state
C25_EqualityOverFourFields ==
    last.op = "eq" =>
        LET a == last.self
            b == last.other
        IN  last.result <=> (/\ a.id = b.id
                             /\ a.file = b.file
                             /\ a.progress = b.progress
                             /\ a.description = b.description)

\* C25 witness: two values that differ in size, total_size and state were
\* found equal
C25_Witness ==
    /\ last.op = "eq"
    /\ last.result
    /\ last.self.size # last.other.size
    /\ last.self.total_size # last.other.total_size
    /\ last.self.state # last.other.state

\* C26: once the updates issued on a cell that started Normal have all
\* completed and none of them carried cancel = true, the mode is Pause when
\* an odd number of update(false) completed and Normal when an even number
\* did, however the tasks interleaved
C26_NoToggleLost ==
    \A t \in Tasks :
        (~hist[held[t].origin].cancel /\ Quiescent(held[t].origin)) =>
            cells[held[t].inner] =
                IF hist[held[t].origin].odd THEN "Pause" ELSE "Normal"

\* C26 witness: two update(false) were under way together on one cell, both
\* have completed, and the cell is back to Normal
C26_Witness ==
    \E c \in Cells :
        /\ hist[c].overlap
        /\ ~hist[c].cancel
        /\ ~hist[c].odd
        /\ Quiescent(c)
        /\ cells[c] = "Normal"

\* the positions of the entries of v with this id
Matches(v, id) == {i \in 1..Len(v) : v[i].id = id}

\* C27: start_file_transfer with an id the selected collection holds appends
\* one more entry with that id; update_file_upload, update_file_description,
\* pause, cancel and error on an id change the earliest entry with it and no
\* other entry; remove_file_upload leaves no entry with the id and keeps the
\* others
C27_DuplicatesFirstMatchOnly ==
    [][LET v == get_tracker(self, last'.tracker)
           w == get_tracker(selfNext, last'.tracker)
       IN  /\ DuplicateStart =>
                  /\ Len(w) = Len(v) + 1
                  /\ SubSeq(w, 1, Len(v)) = v
                  /\ w[Len(w)].id = last'.id
           /\ \A op \in TargetedCalls \ {"remove_file_upload"} :
                  CalledOnPresent(op) =>
                      /\ Len(w) = Len(v)
                      /\ TakesEffect(last', w[First(v, last'.id)])
                      /\ \A i \in 1..Len(v) :
                             i # First(v, last'.id) => w[i] = v[i]
           /\ Called("remove_file_upload") =>
                  /\ Matches(w, last'.id) = {}
                  /\ Len(w) = Len(v) - Cardinality(Matches(v, last'.id))
                  /\ \A i \in 1..Len(v) :
                         v[i].id # last'.id => \E j \in 1..Len(w) : w[j] = v[i]]_vars

\* C27 witness: the id was started twice in one collection and then
\* cancelled: the first entry is Cancelling, the second still Starting
C27_Witness ==
    /\ last.op = "cancel_file_upload"
    /\ Len(get_tracker(self, last.tracker)) = 2
    /\ get_tracker(self, last.tracker)[1].id = last.id
    /\ get_tracker(self, last.tracker)[2].id = last.id
    /\ get_tracker(self, last.tracker)[1].progress.tag = "Cancelling"
    /\ get_tracker(self, last.tracker)[2].progress.tag = "Starting"

StatusTags ==
    {"Starting", "Progress", "Finishing", "Paused", "Cancelling", "Error"}

\* C28: no status is terminal: whatever the status of a present entry
\* (Starting, Progress, Finishing, Paused, Cancelling or Error), a
\* CurrentProgress event leaves it at Progress, a ProgressComplete event at
\* Finishing, pause_file_upload at Paused, cancel_file_upload at Cancelling
\* and error_file_upload at Error
C28_NoTerminalStatus ==
    [][/\ Applied("CurrentProgress") /\ Target.progress.tag \in StatusTags =>
              TargetNext.progress.tag = "Progress"
       /\ Applied("ProgressComplete") /\ Target.progress.tag \in StatusTags =>
              TargetNext.progress.tag = "Finishing"
       /\ CalledOnPresent("pause_file_upload")
            /\ Target.progress.tag \in StatusTags =>
              TargetNext.progress.tag = "Paused"
       /\ CalledOnPresent("cancel_file_upload")
            /\ Target.progress.tag \in StatusTags =>
              TargetNext.progress.tag = "Cancelling"
       /\ CalledOnPresent("error_file_upload")
            /\ Target.progress.tag \in StatusTags =>
              TargetNext.progress.tag = "Error"]_vars

\* C28 witness: a CurrentProgress event found the entry at Cancelling and
\* left it at Progress
C28_Witness ==
    /\ last.op = "update_file_upload"
    /\ last.progression.kind = "CurrentProgress"
    /\ last.was = "Cancelling"
    /\ get_tracker(self, last.tracker)[
           First(get_tracker(self, last.tracker), last.id)].progress.tag
         = "Progress"

\* C29: a CurrentProgress event on a present entry gives it the description
\* of its direction: the template "files.transfer-progress-upload" for
\* FileUpload, "files.transfer-progress-download" for FileDownload
C29_DescriptionKeyMatchesDirection ==
    [][Applied("CurrentProgress") =>
          TargetNext.description.key =
              IF last'.tracker = "FileUpload"
              THEN "files.transfer-progress-upload"
              ELSE "files.transfer-progress-download"]_vars

=============================================================================
